---------------------------- MODULE Spec2Model ----------------------------
(***************************************************************************)
(* The text normalizer of the news API (cleanText / cleanNewsContent) and   *)
(* the request handlers of the server.                                     *)
(*                                                                         *)
(* A JavaScript string is a sequence of one-character strings.  A          *)
(* JavaScript value is a record [kind, chars]: kind "string" carries its   *)
(* characters; null and undefined carry none.                              *)
(***************************************************************************)
EXTENDS Integers, Sequences, FiniteSets, TLC

VARIABLES
    op,      \* the function under call: "cleanText" or "cleanNewsContent"
    text,    \* the argument of cleanText
    news,    \* the argument of cleanNewsContent
    pc,      \* "call" before the call, "returned" after it, "again" after
             \* the result was passed through cleanText a second time
    ret,     \* the value returned by the call
    ret2,    \* cleanText applied to the returned string once more
    store,   \* the news collection: the stored document of every article id
    nextId,  \* the id the next created article gets
    req,     \* the request the news routes handled last
    res,     \* the response sent to it
    conn,    \* the module-level connection cache of the serverless handler
    connects,\* how many times mongoose.connect was invoked
    inv,     \* the invocations of the serverless handler: method, position
             \* and answer of each
    users,   \* the users collection
    reg,     \* the POST /register requests: body, position and answer of each
    calls,   \* the concurrent invocations of cleanText: argument, position
             \* and result of each
    frames,  \* the local variable cleaned of each activation of cleanText
    header,  \* the Authorization header of the request (undefined: none)
    authPc,  \* where authMiddleware is
    userId,  \* req.userId
    sent,    \* the statuses of the responses authMiddleware sent
    nexts,   \* how many times authMiddleware called next()
    origin,  \* the Origin header of the request (undefined: none)
    reqMethod, \* the method of the request
    reqPath, \* the path of the request
    stage,   \* the middleware or handler the request is at
    resStatus, \* the status of the response (0: none sent)
    visited, \* the middlewares and handlers the request has run
    docs,    \* the news collection of server.js: the stored documents
    slug,    \* req.params.slug
    readyState, \* mongoose.connection.readyState
    catPc,   \* the query the category route awaits, or done
    issued,  \* the store operations the category route has issued, with their results
    catRes,  \* the response of the category route
    writes,  \* how many times other requests have changed the collection meanwhile
    sampleCount, \* the number of stored documents of each category slug
    pop      \* the invocations of the populate route: position, category at hand, results and response of each

\* the variables of the calls of the normalizer
cleanVars == <<op, text, news, pc, ret, ret2>>

\* the variables of the news routes
newsVars == <<store, nextId, req, res>>

\* the variables of the serverless handler
handlerVars == <<conn, connects, inv>>

\* the variables of the registration route
registerVars == <<users, reg>>

\* the variables of the concurrent invocations of cleanText
concurrentVars == <<calls, frames>>

\* the variables of the authentication middleware
authVars == <<header, authPc, userId, sent, nexts>>

\* the variables of the CORS middleware, the routing and the error handlers of server.js
corsVars == <<origin, reqMethod, reqPath, stage, resStatus, visited>>

\* the variables of GET /api/news/category/:slug
categoryVars == <<docs, slug, readyState, catPc, issued, catRes, writes>>

\* the variables of POST /api/admin/populate-categories
populateVars == <<sampleCount, pop>>

vars == <<cleanVars, newsVars, handlerVars, registerVars, concurrentVars, authVars, corsVars, categoryVars, populateVars>>

\* the value of the variables of a part of the program that is not running
Unused == "unused"

CleanUnused ==
    /\ op = Unused
    /\ text = Unused
    /\ news = Unused
    /\ pc = Unused
    /\ ret = Unused
    /\ ret2 = Unused

NewsUnused ==
    /\ store = Unused
    /\ nextId = Unused
    /\ req = Unused
    /\ res = Unused

HandlerUnused ==
    /\ conn = Unused
    /\ connects = Unused
    /\ inv = Unused

RegisterUnused ==
    /\ users = Unused
    /\ reg = Unused

ConcurrentUnused ==
    /\ calls = Unused
    /\ frames = Unused

AuthUnused ==
    /\ header = Unused
    /\ authPc = Unused
    /\ userId = Unused
    /\ sent = Unused
    /\ nexts = Unused

CorsUnused ==
    /\ origin = Unused
    /\ reqMethod = Unused
    /\ reqPath = Unused
    /\ stage = Unused
    /\ resStatus = Unused
    /\ visited = Unused

CategoryUnused ==
    /\ docs = Unused
    /\ slug = Unused
    /\ readyState = Unused
    /\ catPc = Unused
    /\ issued = Unused
    /\ catRes = Unused
    /\ writes = Unused

PopulateUnused ==
    /\ sampleCount = Unused
    /\ pop = Unused

\* what the calls of the normalizer leave alone
notCleanVars == <<newsVars, handlerVars, registerVars, concurrentVars, authVars, corsVars, categoryVars, populateVars>>

\* what the news routes leave alone
notNewsVars == <<cleanVars, handlerVars, registerVars, concurrentVars, authVars, corsVars, categoryVars, populateVars>>

\* what the serverless handler leaves alone
notHandlerVars == <<cleanVars, newsVars, registerVars, concurrentVars, authVars, corsVars, categoryVars, populateVars>>

\* what the registration route leaves alone
notRegisterVars == <<cleanVars, newsVars, handlerVars, concurrentVars, authVars, corsVars, categoryVars, populateVars>>

\* what the concurrent invocations of cleanText leave alone
notConcurrentVars == <<cleanVars, newsVars, handlerVars, registerVars, authVars, corsVars, categoryVars, populateVars>>

\* what the authentication middleware leave alone
notAuthVars == <<cleanVars, newsVars, handlerVars, registerVars, concurrentVars, corsVars, categoryVars, populateVars>>

\* what the CORS middleware, the routing and the error handlers of server.js leave alone
notCorsVars == <<cleanVars, newsVars, handlerVars, registerVars, concurrentVars, authVars, categoryVars, populateVars>>

\* what GET /api/news/category/:slug leave alone
notCategoryVars == <<cleanVars, newsVars, handlerVars, registerVars, concurrentVars, authVars, corsVars, populateVars>>

\* what POST /api/admin/populate-categories leave alone
notPopulateVars == <<cleanVars, newsVars, handlerVars, registerVars, concurrentVars, authVars, corsVars, categoryVars>>

-----------------------------------------------------------------------------
(* JavaScript values *)

Str(chars) == [kind |-> "string", chars |-> chars]

Null == [kind |-> "null", chars |-> <<>>]

Undefined == [kind |-> "undefined", chars |-> <<>>]

\* !v of JavaScript for the values a text field can hold
Falsy(v) == v.kind \in {"null", "undefined"} \/ (v.kind = "string" /\ v.chars = <<>>)

LF == "\n"

CR == "\r"

TAB == "\t"

BS == "\\"

\* the characters of the model that the regular expression class \s matches
Whitespace == {" ", LF, CR, TAB}

Digits == {"0", "1", "2", "3", "4", "5", "6", "7", "8", "9"}

\* the letters that occur in the model's inputs
Letters == {"a", "m", "p", "n", "r", "t", "X"}

Contains2(s, a, b) == \E i \in 1..(Len(s) - 1) : s[i] = a /\ s[i + 1] = b

StartsWithAt(s, i, w) ==
    /\ i + Len(w) - 1 <= Len(s)
    /\ \A k \in 1..Len(w) : s[i + k - 1] = w[k]

-----------------------------------------------------------------------------
(* he.decode: one left-to-right pass of he's regexDecode over the text.    *)
(* At an ampersand the alternatives are tried in the order of the regular  *)
(* expression: a named reference ending in a semicolon, a legacy named     *)
(* reference without one, a decimal reference, (a hexadecimal reference,)  *)
(* an ambiguous ampersand.  The tables are he's tables restricted to the   *)
(* names that can be spelled with Letters; no input of the model holds an  *)
(* x, so the hexadecimal alternative never applies.                        *)

\* decodeMap restricted to Letters
decodeMap == [name \in {<<"a", "m", "p">>} |-> "&"]

\* decodeMapLegacy restricted to Letters
decodeMapLegacy == [name \in {<<"a", "m", "p">>} |-> "&"]

\* the character of a code point, for the code points the model's inputs spell
codePointToSymbol(codePoint) ==
    CASE codePoint = 60 -> "<"
      [] codePoint = 62 -> ">"
      [] codePoint = 38 -> "&"

DigitValue(c) ==
    CASE c = "0" -> 0 [] c = "1" -> 1 [] c = "2" -> 2 [] c = "3" -> 3
      [] c = "4" -> 4 [] c = "5" -> 5 [] c = "6" -> 6 [] c = "7" -> 7
      [] c = "8" -> 8 [] c = "9" -> 9

\* the length of the maximal run of characters of class cls starting at s[i]
RECURSIVE RunLen(_, _, _)
RunLen(s, i, cls) ==
    IF i > Len(s) \/ s[i] \notin cls THEN 0 ELSE 1 + RunLen(s, i + 1, cls)

\* parseInt(digits, 10) of s[i .. i + n - 1]
RECURSIVE parseInt(_, _, _)
parseInt(s, i, n) ==
    IF n = 0 THEN 0 ELSE parseInt(s, i, n - 1) * 10 + DigitValue(s[i + n - 1])

\* The match of regexDecode at the ampersand s[i]: the number of characters
\* it consumes and what replaces them (len 1 and the ampersand itself when
\* nothing matches there).
MatchReference(s, i) ==
    LET named == {nm \in DOMAIN decodeMap :
                    StartsWithAt(s, i + 1, nm \o <<";">>)}
        legacy == {nm \in DOMAIN decodeMapLegacy : StartsWithAt(s, i + 1, nm)}
        nd == IF i + 1 <= Len(s) /\ s[i + 1] = "#"
              THEN RunLen(s, i + 2, Digits) ELSE 0
        na == RunLen(s, i + 1, Digits \cup Letters)
    IN  IF named # {}
        THEN LET nm == CHOOSE x \in named : TRUE
             IN  [len |-> Len(nm) + 2, out |-> <<decodeMap[nm]>>]
        ELSE IF legacy # {}
        THEN LET nm == CHOOSE x \in legacy : TRUE
                 j == i + Len(nm) + 1
                 next == IF j <= Len(s) /\ s[j] \in (Digits \cup Letters \cup {"="})
                         THEN <<s[j]>> ELSE <<>>
             IN  [len |-> Len(nm) + 1 + Len(next),
                  out |-> <<decodeMapLegacy[nm]>> \o next]
        ELSE IF nd > 0
        THEN LET semi == IF i + 2 + nd <= Len(s) /\ s[i + 2 + nd] = ";"
                         THEN 1 ELSE 0
             IN  [len |-> 2 + nd + semi,
                  out |-> <<codePointToSymbol(parseInt(s, i + 2, nd))>>]
        ELSE IF na > 0
        THEN [len |-> 1 + na, out |-> SubSeq(s, i, i + na)]
        ELSE [len |-> 1, out |-> <<"&">>]

RECURSIVE heDecodeFrom(_, _)
heDecodeFrom(s, i) ==
    IF i > Len(s) THEN <<>>
    ELSE IF s[i] # "&" THEN <<s[i]>> \o heDecodeFrom(s, i + 1)
    ELSE LET m == MatchReference(s, i)
         IN  m.out \o heDecodeFrom(s, i + m.len)

heDecode(s) == heDecodeFrom(s, 1)

-----------------------------------------------------------------------------
(* striptags: the character state machine of striptags_internal with the   *)
(* default options (no allowable tag, empty tag replacement).              *)

InitContext ==
    [state |-> "plaintext", tag_buffer |-> <<>>, depth |-> 0,
     in_quote_char |-> "", output |-> <<>>]

EndsWithDashes(b) == Len(b) >= 2 /\ b[Len(b)] = "-" /\ b[Len(b) - 1] = "-"

StripStep(c, char) ==
    IF c.state = "plaintext"
    THEN IF char = "<"
         THEN [c EXCEPT !.state = "html", !.tag_buffer = c.tag_buffer \o <<char>>]
         ELSE [c EXCEPT !.output = c.output \o <<char>>]
    ELSE IF c.state = "html"
    THEN CASE char = "<" ->
                IF c.in_quote_char # "" THEN c
                ELSE [c EXCEPT !.depth = c.depth + 1]
           [] char = ">" ->
                IF c.in_quote_char # "" THEN c
                ELSE IF c.depth > 0 THEN [c EXCEPT !.depth = c.depth - 1]
                ELSE [c EXCEPT !.in_quote_char = "", !.state = "plaintext",
                               !.tag_buffer = <<>>]
           [] char \in {"\"", "'"} ->
                [c EXCEPT !.in_quote_char =
                              IF char = c.in_quote_char THEN ""
                              ELSE IF c.in_quote_char # "" THEN c.in_quote_char
                              ELSE char,
                          !.tag_buffer = c.tag_buffer \o <<char>>]
           [] char = "-" ->
                [c EXCEPT !.state = IF c.tag_buffer = <<"<", "!", "-">>
                                    THEN "comment" ELSE "html",
                          !.tag_buffer = c.tag_buffer \o <<char>>]
           [] char \in {" ", LF} ->
                IF c.tag_buffer = <<"<">>
                THEN [c EXCEPT !.state = "plaintext",
                               !.output = c.output \o <<"<", " ">>,
                               !.tag_buffer = <<>>]
                ELSE [c EXCEPT !.tag_buffer = c.tag_buffer \o <<char>>]
           [] OTHER -> [c EXCEPT !.tag_buffer = c.tag_buffer \o <<char>>]
    ELSE \* comment
         IF char = ">"
         THEN [c EXCEPT !.state = IF EndsWithDashes(c.tag_buffer)
                                  THEN "plaintext" ELSE "comment",
                        !.tag_buffer = <<>>]
         ELSE [c EXCEPT !.tag_buffer = c.tag_buffer \o <<char>>]

RECURSIVE striptags_internal(_, _, _)
striptags_internal(html, idx, c) ==
    IF idx > Len(html) THEN c.output
    ELSE striptags_internal(html, idx + 1, StripStep(c, html[idx]))

striptags(html) == striptags_internal(html, 1, InitContext)

-----------------------------------------------------------------------------
(* String.prototype.replace with a global regular expression that matches  *)
(* the two characters a b: one left-to-right pass, matches do not overlap, *)
(* the replacement is not scanned again.                                   *)

RECURSIVE replaceFrom(_, _, _, _, _)
replaceFrom(s, i, a, b, rep) ==
    IF i > Len(s) THEN <<>>
    ELSE IF i < Len(s) /\ s[i] = a /\ s[i + 1] = b
    THEN rep \o replaceFrom(s, i + 2, a, b, rep)
    ELSE <<s[i]>> \o replaceFrom(s, i + 1, a, b, rep)

replace(s, a, b, rep) == replaceFrom(s, 1, a, b, rep)

\* .replace(/\s+/g, " ")
RECURSIVE collapseFrom(_, _)
collapseFrom(s, i) ==
    IF i > Len(s) THEN <<>>
    ELSE IF s[i] \in Whitespace
    THEN <<" ">> \o collapseFrom(s, i + RunLen(s, i, Whitespace))
    ELSE <<s[i]>> \o collapseFrom(s, i + 1)

\* the collapse of runs of spaces only: / +/g instead of /\s+/g
RECURSIVE collapseSpacesFrom(_, _)
collapseSpacesFrom(s, i) ==
    IF i > Len(s) THEN <<>>
    ELSE IF s[i] = " "
    THEN <<" ">> \o collapseSpacesFrom(s, i + RunLen(s, i, {" "}))
    ELSE <<s[i]>> \o collapseSpacesFrom(s, i + 1)

replaceSpaces(s) == collapseSpacesFrom(s, 1)

replaceWhitespace(s) == collapseFrom(s, 1)

RECURSIVE trimEnd(_)
trimEnd(s) ==
    IF s # <<>> /\ s[Len(s)] \in Whitespace THEN trimEnd(SubSeq(s, 1, Len(s) - 1))
    ELSE s

\* .trim()
trim(s) == trimEnd(SubSeq(s, RunLen(s, 1, Whitespace) + 1, Len(s)))

-----------------------------------------------------------------------------
(* The escape-repair table of the specification, and the variants of the   *)
(* chain of cleanText that the claims are tested against.                  *)

\* The escape-repair table of the specification, in its listed order: the
\* two characters of the sequence and the replacement.
EscapeTable ==
    << <<BS, ",", <<",">>>>,   <<BS, "-", <<"-">>>>,   <<BS, "/", <<"/">>>>,
       <<"/", "/", <<>>>>,     <<"/", ".", <<".">>>>,  <<BS, ".", <<".">>>>,
       <<BS, ":", <<":">>>>,   <<BS, ";", <<";">>>>,   <<BS, "'", <<"'">>>>,
       <<BS, "\"", <<"\"">>>>, <<BS, "(", <<"(">>>>,   <<BS, ")", <<")">>>>,
       <<BS, "[", <<"[">>>>,   <<BS, "]", <<"]">>>>,   <<BS, "!", <<"!">>>>,
       <<BS, "?", <<"?">>>>,   <<BS, "n", <<LF>>>>,    <<BS, "r", <<CR>>>>,
       <<BS, "t", <<TAB>>>>,   <<BS, BS, <<BS>>>> >>

\* the rules of a table applied one after the other, each as one pass
RECURSIVE ApplyRules(_, _)
ApplyRules(s, rules) ==
    IF rules = <<>> THEN s
    ELSE LET rule == rules[Len(rules)]
         IN  replace(ApplyRules(s, SubSeq(rules, 1, Len(rules) - 1)),
                     rule[1], rule[2], rule[3])

\* escapeRepair with the backslash-backslash rule first instead of last
escapeRepairBackslashFirst(s) ==
    ApplyRules(s, <<EscapeTable[20]>> \o SubSeq(EscapeTable, 1, 19))

\* escapeRepair without the backslash-comma rule
escapeRepairNoComma(s) == ApplyRules(s, SubSeq(EscapeTable, 2, 20))

\* escapeRepair with the double-slash rule before the backslash-slash rule
escapeRepairSlashSwapped(s) ==
    ApplyRules(s, <<EscapeTable[1], EscapeTable[2], EscapeTable[4], EscapeTable[3]>>
                      \o SubSeq(EscapeTable, 5, 20))


-----------------------------------------------------------------------------
(* cleanText *)

\* the chain of .replace calls of cleanText, in the order of the source
escapeRepair(s) ==
    LET r1  == replace(s,   BS, ",",  <<",">>)
        r2  == replace(r1,  BS, "-",  <<"-">>)
        r3  == replace(r2,  BS, "/",  <<"/">>)
        r4  == replace(r3,  "/", "/", <<>>)
        r5  == replace(r4,  "/", ".", <<".">>)
        r6  == replace(r5,  BS, ".",  <<".">>)
        r7  == replace(r6,  BS, ":",  <<":">>)
        r8  == replace(r7,  BS, ";",  <<";">>)
        r9  == replace(r8,  BS, "'",  <<"'">>)
        r10 == replace(r9,  BS, "\"", <<"\"">>)
        r11 == replace(r10, BS, "(",  <<"(">>)
        r12 == replace(r11, BS, ")",  <<")">>)
        r13 == replace(r12, BS, "[",  <<"[">>)
        r14 == replace(r13, BS, "]",  <<"]">>)
        r15 == replace(r14, BS, "!",  <<"!">>)
        r16 == replace(r15, BS, "?",  <<"?">>)
        r17 == replace(r16, BS, "n",  <<LF>>)
        r18 == replace(r17, BS, "r",  <<CR>>)
        r19 == replace(r18, BS, "t",  <<TAB>>)
        r20 == replace(r19, BS, BS,   <<BS>>)
    IN  r20

\* cleanText without its guard: the decoder is handed whatever comes, and
\* reading a property of null or undefined ends in a TypeError
cleanTextNoGuard(t) ==
    IF t.kind # "string" THEN [kind |-> "throw"]
    ELSE Str(trim(replaceWhitespace(escapeRepair(striptags(heDecode(t.chars))))))

\* cleanText stripping the tags before it decodes the entities
cleanTextStripFirst(t) ==
    IF Falsy(t) THEN t
    ELSE Str(trim(replaceWhitespace(escapeRepair(heDecode(striptags(t.chars))))))

\* cleanText coercing a falsy input to the empty string
cleanTextCoerce(t) ==
    IF Falsy(t) THEN Str(<<>>)
    ELSE Str(trim(replaceWhitespace(escapeRepair(striptags(heDecode(t.chars))))))

cleanText(t) ==
    IF Falsy(t) THEN t
    ELSE Str(trim(replaceWhitespace(escapeRepair(striptags(heDecode(t.chars))))))

-----------------------------------------------------------------------------
(* cleanNewsContent.  A plain record is a function from its field names to *)
(* values.  A news value is an object (a plain record, or a document of    *)
(* the mapping layer, which has a toObject method returning its plain      *)
(* record), an array of items, null or undefined.                          *)

TextFields == {"title", "description", "content", "author", "category"}

\* a plain object of the caller with the fields of the record; ref tells
\* which allocation an object is: one made by the caller, or the one made by
\* the object literal of cleanNewsContent
Plain(record) ==
    [kind |-> "object", hasToObject |-> FALSE, fields |-> record, doc |-> record,
     ref |-> "caller"]

\* the own properties of a document of the mapping layer: its internals;
\* the stored record is behind them
DocInternals ==
    [f \in {"$__", "_doc", "$isNew"} |-> [kind |-> "internal", chars |-> <<>>]]

\* a document of the mapping layer holding the record
Document(record) ==
    [kind |-> "object", hasToObject |-> TRUE, fields |-> DocInternals, doc |-> record,
     ref |-> "caller"]

\* { ...newsObj, ... }: the object literal allocates a new plain object
Literal(record) == [Plain(record) EXCEPT !.ref = "literal"]

Arr(items) == [kind |-> "array", items |-> items]

\* the call ended in a TypeError
Throw == [kind |-> "throw"]

\* item.toObject(): the plain record of a document
toObject(item) == item.doc

\* obj.f: undefined when the record has no field f
Get(fields, f) == IF f \in DOMAIN fields THEN fields[f] ELSE Undefined

\* cleanFields cleaning every string field of the record
cleanFieldsAll(newsObj) ==
    [f \in (DOMAIN newsObj) \cup TextFields |->
        IF f \in TextFields \/ newsObj[f].kind = "string"
        THEN cleanText(Get(newsObj, f)) ELSE newsObj[f]]

\* { ...newsObj, title: cleanText(newsObj.title), ... category: ... }
cleanFields(newsObj) ==
    [f \in (DOMAIN newsObj) \cup TextFields |->
        IF f \in TextFields THEN cleanText(Get(newsObj, f)) ELSE newsObj[f]]

\* the record without fields: what spreading null or undefined gives
EmptyRecord == [f \in {} |-> Undefined]

\* the map callback spreading the item itself, whether or not it has a
\* toObject method
cleanItemNoConversion(item) ==
    IF item.kind \in {"null", "undefined"} THEN Throw
    ELSE Literal(cleanFields(item.fields))


\* news.map((item) => ...) for one item of the array: reading item.toObject
\* of null or undefined throws
cleanItem(item) ==
    IF item.kind \in {"null", "undefined"} THEN Throw
    ELSE Literal(cleanFields(IF item.hasToObject THEN toObject(item) ELSE item.fields))

cleanNewsContent(n) ==
    IF n.kind = "array"
    THEN IF \E i \in 1..Len(n.items) : cleanItem(n.items[i]) = Throw
         THEN Throw
         ELSE Arr([i \in 1..Len(n.items) |-> cleanItem(n.items[i])])
    ELSE IF n.kind \in {"null", "undefined"}
    THEN Literal(cleanFields(EmptyRecord))
    ELSE Literal(cleanFields(IF n.hasToObject THEN toObject(n) ELSE n.fields))

-----------------------------------------------------------------------------
(* The inputs the calls are made with *)

\* the most tokens of a text input
MaxTokens == 3

\* the most characters of a text input over AllChars
MaxChars == 2

\* escapes, white space and character references
CoreTokens ==
    { <<BS>>, <<",">>, <<"/">>, <<".">>, <<"n">>, <<" ">>, <<LF>>,
      <<"<">>, <<">">>, <<"<", "n", ">">>,
      <<"&">>, <<"&", "a", "m", "p", ";">>,
      <<"#", "6", "0", ";">>, <<"&", "#", "6", "0", ";">> }

\* tags, quoted attribute values and comments
MarkupTokens ==
    { <<"<">>, <<">">>, <<"n">>, <<"'">>, <<" ">>, <<"/">>,
      <<"<", "!", "-", "-">>, <<"-", "-", ">">> }

AllChars ==
    { <<BS>>, <<",">>, <<"-">>, <<"/">>, <<".">>, <<":">>, <<";">>, <<"'">>,
      <<"\"">>, <<"(">>, <<")">>, <<"[">>, <<"]">>, <<"!">>, <<"?">>,
      <<"n">>, <<"r">>, <<"t">>, <<"X">>, <<" ">>, <<LF>>, <<CR>>, <<TAB>>,
      <<"<">>, <<">">>, <<"&">>, <<"#">> }

\* the concatenations of at most n elements of tokens
RECURSIVE Concats(_, _)
Concats(tokens, n) ==
    IF n = 0 THEN {<<>>}
    ELSE LET shorter == Concats(tokens, n - 1)
         IN  shorter \cup {s \o tk : s \in shorter, tk \in tokens}

TextStrings ==
    Concats(CoreTokens, MaxTokens) \cup Concats(MarkupTokens, MaxTokens)
        \cup Concats(AllChars, MaxChars)

TextInputs == {Null, Undefined} \cup {Str(s) : s \in TextStrings}

\* the longest array of news items
MaxRecords == 2

\* the dirty text of each text field
DirtyText ==
    [f \in TextFields |->
        CASE f = "title"       -> Str(<<"<", "n", ">", "X", "<", "/", "n", ">">>)
          [] f = "description" -> Str(<<"X", BS, ",">>)
          [] f = "content"     -> Str(<<"&", "a", "m", "p", ";", " ", "X">>)
          [] f = "author"      -> Str(<<" ", "X", " ">>)
          [] f = "category"    -> Str(<<"n", "/", "/", "n">>)]

\* the fields cleanNewsContent is not to touch, with markup in one of them
OtherValues ==
    [f \in {"_id", "image"} |->
        IF f = "_id" THEN [kind |-> "id", chars |-> <<"1">>]
        ELSE Str(<<"<", "n", ">", "/", "/", "X">>)]

\* a record with the text fields of present, those of nulls holding null
Record(present, nulls) ==
    [f \in present \cup DOMAIN OtherValues |->
        IF f \in DOMAIN OtherValues THEN OtherValues[f]
        ELSE IF f \in nulls THEN Null ELSE DirtyText[f]]

\* every text field dirty; one text field absent; one null; no text field
PlainRecords ==
    {Record(TextFields, {}), Record({}, {})}
        \cup {Record(TextFields \ {f}, {}) : f \in TextFields}
        \cup {Record(TextFields, {f}) : f \in TextFields}

NewsItems ==
    {Plain(r) : r \in PlainRecords} \cup {Document(r) : r \in PlainRecords}
        \cup {Null}

\* the sequences over S of length at most n
RECURSIVE SeqsUpTo(_, _)
SeqsUpTo(S, n) ==
    IF n = 0 THEN {<<>>}
    ELSE LET shorter == SeqsUpTo(S, n - 1)
         IN  shorter \cup {Append(q, x) : q \in shorter, x \in S}

NewsInputs ==
    NewsItems \cup {Undefined} \cup {Arr(q) : q \in SeqsUpTo(NewsItems, MaxRecords)}

\* the value of a variable that holds nothing yet
NoValue == [kind |-> "none", chars |-> <<>>]

-----------------------------------------------------------------------------
(* The calls *)

Init ==
    /\ \/ op = "cleanText" /\ text \in TextInputs /\ news = NoValue
       \/ op = "cleanNewsContent" /\ text = NoValue /\ news \in NewsInputs
    /\ pc = "call"
    /\ ret = NoValue
    /\ ret2 = NoValue
    /\ NewsUnused
    /\ HandlerUnused
    /\ RegisterUnused
    /\ ConcurrentUnused
    /\ AuthUnused
    /\ CorsUnused
    /\ CategoryUnused
    /\ PopulateUnused

\* ret = cleanText(text)
CallCleanText ==
    /\ pc = "call"
    /\ op = "cleanText"
    /\ ret' = cleanText(text)
    /\ pc' = "returned"
    /\ UNCHANGED <<op, text, news, ret2, notCleanVars>>

\* ret2 = cleanText(ret): the result is passed through cleanText again
CleanAgain ==
    /\ pc = "returned"
    /\ op = "cleanText"
    /\ ret2' = cleanText(ret)
    /\ pc' = "again"
    /\ UNCHANGED <<op, text, news, ret, notCleanVars>>

\* an item whose text fields are assigned in place
CleanedInPlace(item) ==
    IF item.kind # "object" THEN item
    ELSE IF item.hasToObject THEN [item EXCEPT !.doc = cleanFields(item.doc)]
    ELSE [item EXCEPT !.fields = cleanFields(item.fields),
                      !.doc = cleanFields(item.fields)]

\* a call that assigns the cleaned text to the fields of its argument and
\* returns the argument
CallCleanNewsContentInPlace ==
    /\ pc = "call"
    /\ op = "cleanNewsContent"
    /\ news' = IF news.kind = "array"
               THEN Arr([i \in 1..Len(news.items) |-> CleanedInPlace(news.items[i])])
               ELSE CleanedInPlace(news)
    /\ ret' = news'
    /\ pc' = "returned"
    /\ UNCHANGED <<op, text, ret2, notCleanVars>>

\* ret = cleanNewsContent(news)
CallCleanNewsContent ==
    /\ pc = "call"
    /\ op = "cleanNewsContent"
    /\ ret' = cleanNewsContent(news)
    /\ pc' = "returned"
    /\ UNCHANGED <<op, text, news, ret2, notCleanVars>>

Next == CallCleanText \/ CleanAgain \/ CallCleanNewsContent

Spec == Init /\ [][Next]_vars

-----------------------------------------------------------------------------
(* The claims about cleanText *)

\* cleanText has returned for a truthy input string
Cleaned == op = "cleanText" /\ pc # "call" /\ ~Falsy(text)

\* the pipeline of the specification: decode, strip, the table, collapse, trim
SpecPipeline(s) ==
    trim(replaceWhitespace(ApplyRules(striptags(heDecode(s)), EscapeTable)))

\* C1: for every truthy input string, cleanText returns the entity decode,
\* then the tag strip, then the 20 rules of the table in their listed order
\* (backslash-backslash last), then the whitespace collapse, then the trim.
C1_PipelineInOrder == Cleaned => ret = Str(SpecPipeline(text.chars))

\* the backslash-backslash rule has run after the backslash-comma rule
C1_Witness ==
    /\ Cleaned
    /\ text = Str(<<BS, BS, ",">>)
    /\ ret = Str(<<BS, ",">>)

\* s holds a character reference at s[i]: a named one or a numeric one
IsReferenceAt(s, i) ==
    /\ s[i] = "&"
    /\ \/ \E nm \in DOMAIN decodeMap : StartsWithAt(s, i + 1, nm \o <<";">>)
       \/ /\ i + 1 <= Len(s) /\ s[i + 1] = "#"
          /\ RunLen(s, i + 2, Digits) > 0
          /\ StartsWithAt(s, i + 2 + RunLen(s, i + 2, Digits), <<";">>)

HasReference(s) == \E i \in 1..Len(s) : IsReferenceAt(s, i)

\* C2: for every truthy input string, the output of cleanText holds no
\* character reference, named or numeric, also when the reference comes
\* into existence by one round of decoding or by the removal of a tag.
C2_NoReferenceRemains == Cleaned => ~HasReference(ret.chars)

\* s holds the start of a tag at s[i]: a less-than sign followed by anything
\* but white space
IsTagStartAt(s, i) == s[i] = "<" /\ i < Len(s) /\ s[i + 1] \notin Whitespace

\* Every less-than sign of s opens a tag that a greater-than sign closes
\* before the next less-than sign, with a name or a slash after the sign and
\* no quote inside.
RECURSIVE SimpleMarkupFrom(_, _, _)
SimpleMarkupFrom(s, i, inTag) ==
    IF i > Len(s) THEN ~inTag
    ELSE IF inTag
    THEN /\ s[i] \notin {"<", "'", "\""}
         /\ SimpleMarkupFrom(s, i + 1, s[i] # ">")
    ELSE IF s[i] = "<"
    THEN /\ i < Len(s)
         /\ s[i + 1] \in Letters \cup {"/"}
         /\ SimpleMarkupFrom(s, i + 1, TRUE)
    ELSE SimpleMarkupFrom(s, i + 1, FALSE)

SimpleMarkup(s) == SimpleMarkupFrom(s, 1, FALSE)

\* the text of s outside its tags, for s of simple markup
RECURSIVE TextBetweenTags(_, _, _)
TextBetweenTags(s, i, inTag) ==
    IF i > Len(s) THEN <<>>
    ELSE IF inTag THEN TextBetweenTags(s, i + 1, s[i] # ">")
    ELSE IF s[i] = "<" THEN TextBetweenTags(s, i + 1, TRUE)
    ELSE <<s[i]>> \o TextBetweenTags(s, i + 1, FALSE)

\* C3: for every truthy input string, the output of cleanText holds no tag
\* (no less-than sign followed by anything but a space), also for a tag formed
\* by entity decoding, and the text between the tags of an input of simple
\* markup is what the later steps are applied to.
C3_NoTagRemains ==
    Cleaned =>
        /\ \A i \in 1..Len(ret.chars) : ~IsTagStartAt(ret.chars, i)
        /\ SimpleMarkup(heDecode(text.chars)) =>
               ret = Str(trim(replaceWhitespace(escapeRepair(
                         TextBetweenTags(heDecode(text.chars), 1, FALSE)))))

\* a tag formed by entity decoding is removed
C3_Witness ==
    /\ Cleaned
    /\ text = Str(<<"&", "#", "6", "0", ";", "n", ">">>)
    /\ ret = Str(<<>>)

\* the punctuation markers the table unescapes
Markers == {",", "-", "/", ".", ":", ";", "'", "\"", "(", ")", "[", "]", "!", "?"}

HasEscapedMarker(s) == \E m \in Markers : Contains2(s, BS, m)

\* C4 as stated: for every truthy input string, the output of cleanText
\* holds no backslash immediately followed by a marker of the table, also
\* when the marker is preceded by an escaped backslash.
C4_NoEscapedMarker == Cleaned => ~HasEscapedMarker(ret.chars)

\* C4 as amended: for every truthy input string whose decoded, tag-stripped
\* text holds no two adjacent backslashes, the output of cleanText holds no
\* backslash immediately followed by a marker of the table.
C4_NoEscapedMarkerUnlessDoubled ==
    (Cleaned /\ ~Contains2(striptags(heDecode(text.chars)), BS, BS))
        => ~HasEscapedMarker(ret.chars)

\* an escaped marker is unescaped
C4_Witness ==
    /\ Cleaned
    /\ text = Str(<<"n", BS, ",">>)
    /\ ret = Str(<<"n", ",">>)

\* cleanText has been applied to its own result, which holds no backslash
CleanedTwice ==
    /\ op = "cleanText"
    /\ pc = "again"
    /\ \A i \in 1..Len(ret.chars) : ret.chars[i] # BS

\* C5: for every input string s such that cleanText(s) holds no backslash,
\* cleanText(cleanText(s)) = cleanText(s).
C5_Idempotent == CleanedTwice => ret2 = ret

WhitespaceNormalized(s) ==
    /\ \A i \in 1..Len(s) : s[i] \in Whitespace => s[i] = " "
    /\ ~Contains2(s, " ", " ")
    /\ s # <<>> => (s[1] # " " /\ s[Len(s)] # " ")

\* C6: for every truthy input string, the only white space of the output of
\* cleanText is the single space, no two spaces are adjacent and the output
\* neither starts nor ends with one; this covers the newline, carriage
\* return and tab the escape-repair rules produce.
C6_WhitespaceNormalized == Cleaned => WhitespaceNormalized(ret.chars)

\* the newline the backslash-n rule produces is gone from the output
C6_Witness ==
    /\ Cleaned
    /\ text = Str(<<",", BS, "n">>)
    /\ ret = Str(<<",">>)

\* C7: cleanText returns a falsy input (null, undefined, the empty string)
\* unchanged and of the same kind.
C7_FalsyUnchanged == (op = "cleanText" /\ pc # "call" /\ Falsy(text)) => ret = text

\* null was returned for null
C7_Witness == op = "cleanText" /\ pc = "returned" /\ text = Null /\ ret = Null

\* C8: for every truthy input string, the output of cleanText holds no two
\* adjacent slashes: every double slash is deleted, also the one that the
\* backslash-slash rule forms.
C8_NoDoubleSlash == Cleaned => ~Contains2(ret.chars, "/", "/")

\* the slash of an escaped slash and the slash after it are deleted together
C8_Witness ==
    /\ Cleaned
    /\ text = Str(<<BS, "/", "/">>)
    /\ ret = Str(<<>>)

-----------------------------------------------------------------------------
(* The claims about cleanNewsContent *)

\* the plain record the fields of an item are read from
PlainOf(item) == IF item.hasToObject THEN item.doc ELSE item.fields

IsRecord(item) == item.kind = "object"

\* cleanNewsContent has returned for an array of records
CleanedArray ==
    /\ op = "cleanNewsContent"
    /\ pc = "returned"
    /\ news.kind = "array"
    /\ \A i \in 1..Len(news.items) : IsRecord(news.items[i])

\* what cleanText makes of the dirty text of each text field
CleanedDirtyText ==
    [f \in TextFields |->
        CASE f = "title"       -> Str(<<"X">>)
          [] f = "description" -> Str(<<"X", ",">>)
          [] f = "content"     -> Str(<<"&", " ", "X">>)
          [] f = "author"      -> Str(<<"X">>)
          [] f = "category"    -> Str(<<"n", "n">>)]

\* the text field f of the output record is the cleaned field of the input
TextFieldCleaned(in, out, f) ==
    /\ f \in DOMAIN out
    /\ out[f] = cleanText(Get(in, f))
    /\ (f \in DOMAIN in /\ in[f] = DirtyText[f]) => out[f] = CleanedDirtyText[f]

\* C9: cleanNewsContent of a sequence of N records returns N records in the
\* same order; the five text fields of the i-th output record are cleanText
\* of those of the i-th input record and its other fields equal the input's.
C9_ArrayCleanedInOrder ==
    CleanedArray =>
        /\ ret.kind = "array"
        /\ Len(ret.items) = Len(news.items)
        /\ \A i \in 1..Len(news.items) :
              LET in == PlainOf(news.items[i])
                  out == ret.items[i].fields
              IN  /\ \A f \in TextFields : TextFieldCleaned(in, out, f)
                  /\ \A f \in (DOMAIN in) \ TextFields :
                        f \in DOMAIN out /\ out[f] = in[f]

\* two different records were cleaned and came back in their order
C9_Witness ==
    /\ CleanedArray
    /\ news.items = <<Plain(Record(TextFields, {})), Plain(Record({}, {}))>>
    /\ ret.items[1].fields["title"] = Str(<<"X">>)
    /\ ret.items[2].fields["title"] = Undefined
    /\ ret.items[1].fields["image"] = OtherValues["image"]

\* the records of the input and, in the same order, those of the output
InputRecords == IF news.kind = "array" THEN news.items ELSE <<news>>

OutputRecords == IF ret.kind = "array" THEN ret.items ELSE <<ret>>

\* C10: for every input record, single or element of a sequence, the output
\* record of cleanNewsContent has exactly the field names of the input, also
\* when the input lacks some of the five text fields.
C10_SameFieldSet ==
    (/\ op = "cleanNewsContent"
     /\ pc = "returned"
     /\ \A i \in 1..Len(InputRecords) : IsRecord(InputRecords[i]))
        => \A i \in 1..Len(InputRecords) :
              DOMAIN OutputRecords[i].fields = DOMAIN PlainOf(InputRecords[i])

\* cleanNewsContent has returned for a record or for an array of records
CleanedRecords ==
    /\ op = "cleanNewsContent"
    /\ pc = "returned"
    /\ \A i \in 1..Len(InputRecords) : IsRecord(InputRecords[i])

\* C11: cleanNewsContent does not throw when any of the five text fields of
\* a record is null or absent; a null text field is null in the output and
\* the other text fields of the same record are cleaned.
C11_NullFieldStaysNull ==
    CleanedRecords =>
        /\ ret # Throw
        /\ Len(OutputRecords) = Len(InputRecords)
        /\ \A i \in 1..Len(InputRecords) :
              LET in == PlainOf(InputRecords[i])
                  out == OutputRecords[i].fields
              IN  \A f \in TextFields :
                     /\ f \in DOMAIN out
                     /\ Get(in, f) = Null => out[f] = Null
                     /\ (f \in DOMAIN in /\ in[f] = DirtyText[f])
                           => out[f] = CleanedDirtyText[f]

\* a record whose content is null came back with content null and its
\* title cleaned
C11_Witness ==
    /\ CleanedRecords
    /\ news = Plain(Record(TextFields, {"content"}))
    /\ news.fields["content"] = Null
    /\ ret.fields["content"] = Null
    /\ ret.fields["title"] = Str(<<"X">>)


\* C12: cleanText and cleanNewsContent never change their argument: no step
\* changes the input string, the input record or a record of the input
\* sequence, and every record cleanNewsContent returns is a new object, not
\* the input record.
C12_InputUntouched ==
    /\ [][text' = text /\ news' = news]_vars
    /\ [](CleanedRecords =>
             \A i \in 1..Len(InputRecords) : \A j \in 1..Len(OutputRecords) :
                 /\ OutputRecords[j].ref = "literal"
                 /\ OutputRecords[j].ref # InputRecords[i].ref)

\* a dirty record was cleaned: the result has the clean title, the argument
\* still the dirty one
C12_Witness ==
    /\ CleanedRecords
    /\ news = Plain(Record(TextFields, {}))
    /\ news.fields["title"] = DirtyText["title"]
    /\ ret.fields["title"] = Str(<<"X">>)
    /\ ret.ref # news.ref


\* C13: cleanNewsContent converts before it reads, for a single record and
\* for every element of a sequence: the fields of a value with a toObject
\* method are those of the result of toObject, the fields of any other value
\* are its own, so a plain record and a document of the same data give equal
\* output records.
C13_ConversionAware ==
    CleanedRecords =>
        \A i \in 1..Len(InputRecords) :
            LET item == InputRecords[i]
                data == IF item.hasToObject THEN toObject(item) ELSE item.fields
            IN  /\ OutputRecords[i].fields = cleanFields(data)
                /\ OutputRecords[i] = cleanNewsContent(Plain(data))
                /\ OutputRecords[i] = cleanNewsContent(Document(data))
                /\ OutputRecords[i] = cleanNewsContent(Arr(<<Plain(data)>>)).items[1]
                /\ OutputRecords[i] = cleanNewsContent(Arr(<<Document(data)>>)).items[1]
                /\ DOMAIN OutputRecords[i].fields \cap DOMAIN DocInternals = {}

\* a document and a plain record of the same dirty data were cleaned
\* together and came back as equal records
C13_Witness ==
    /\ CleanedRecords
    /\ news.kind = "array"
    /\ news.items = <<Document(Record(TextFields, {})), Plain(Record(TextFields, {}))>>
    /\ ret.items[1] = ret.items[2]
    /\ ret.items[1].fields["title"] = Str(<<"X">>)


-----------------------------------------------------------------------------
(* The news routes of the server: GET /api/news, GET /api/news/:id, POST    *)
(* /api/news, PUT /api/news/:id and DELETE /api/news/:id.  Each handler     *)
(* awaits one operation of the store and then answers, so a handler is one  *)
(* step.  The store operation of a request may throw (the database is       *)
(* down, the id does not cast, the document does not validate).             *)

\* the number of articles ever created
MaxArticles == 2

Ids == 1..MaxArticles

ObjectId(id) == [kind |-> "id", n |-> id]

\* the bodies of the requests: every text field dirty; a title holding an
\* entity and a null content
RequestBodies ==
    { [f \in TextFields |-> DirtyText[f]],
      [f \in {"title", "content"} |->
          IF f = "title" THEN Str(<<"&", "a", "m", "p", ";">>) ELSE Null] }

NoBody == [f \in {} |-> Undefined]

Request(method, route, id, body, throws) ==
    [method |-> method, route |-> route, id |-> id, body |-> body,
     throws |-> throws]

Message(t) == [kind |-> "message", text |-> t]

\* res.status(status).json(body)
Response(status, body) == [status |-> status, body |-> body]

\* new News(req.body) saved under the id
NewDoc(id, body) ==
    [f \in (DOMAIN body) \cup {"_id"} |->
        IF f = "_id" THEN ObjectId(id) ELSE body[f]]

\* the document after findByIdAndUpdate(id, req.body): the fields of the
\* body are set on it
Update(doc, body) ==
    [f \in (DOMAIN doc) \cup (DOMAIN body) |->
        IF f \in DOMAIN body THEN body[f] ELSE doc[f]]

Max(S) == CHOOSE x \in S : \A y \in S : y <= x

\* the ids from the newest to the oldest: sort({ createdAt: -1 })
RECURSIVE SortedDesc(_)
SortedDesc(S) ==
    IF S = {} THEN <<>> ELSE <<Max(S)>> \o SortedDesc(S \ {Max(S)})

\* News.find().sort({ createdAt: -1 }).lean(): the plain records, newest
\* first
Find ==
    LET ids == SortedDesc(DOMAIN store)
    IN  Arr([i \in 1..Len(ids) |-> Plain(store[ids[i]])])

\* News.findById(id).lean(): the plain record, or null
FindById(id) == IF id \in DOMAIN store THEN Plain(store[id]) ELSE Null

InitNews ==
    /\ CleanUnused
    /\ HandlerUnused
    /\ RegisterUnused
    /\ ConcurrentUnused
    /\ AuthUnused
    /\ CorsUnused
    /\ CategoryUnused
    /\ PopulateUnused
    /\ store = [i \in {} |-> EmptyRecord]
    /\ nextId = 1
    /\ req = Request("none", "none", 0, NoBody, FALSE)
    /\ res = Response(0, Message("none"))

\* GET /api/news answering the query result as it is
GetNewsRaw ==
    /\ \E throws \in BOOLEAN :
          /\ req' = Request("GET", "/api/news", 0, NoBody, throws)
          /\ res' = IF throws
                    THEN Response(500, Message("Failed to fetch news"))
                    ELSE Response(200, Find)
    /\ UNCHANGED <<store, nextId, notNewsVars>>

\* GET /api/news
GetNews ==
    /\ \E throws \in BOOLEAN :
          LET cleanedNews == IF throws THEN Throw ELSE cleanNewsContent(Find)
          IN  /\ req' = Request("GET", "/api/news", 0, NoBody, throws)
              /\ res' = IF cleanedNews = Throw
                        THEN Response(500, Message("Failed to fetch news"))
                        ELSE Response(200, cleanedNews)
    /\ UNCHANGED <<store, nextId, notNewsVars>>

\* GET /api/news/:id
GetNewsById ==
    /\ \E id \in Ids, throws \in BOOLEAN :
          LET story == IF throws THEN Throw ELSE FindById(id)
              cleanedStory == IF story \in {Throw, Null} THEN story
                              ELSE cleanNewsContent(story)
          IN  /\ req' = Request("GET", "/api/news/:id", id, NoBody, throws)
              /\ res' = IF cleanedStory = Throw
                        THEN Response(500, Message("Failed to fetch story"))
                        ELSE IF story = Null
                        THEN Response(404, Message("Story not found"))
                        ELSE Response(200, cleanedStory)
    /\ UNCHANGED <<store, nextId, notNewsVars>>

\* POST /api/news
PostNews ==
    /\ nextId <= MaxArticles
    /\ \E body \in RequestBodies, throws \in BOOLEAN :
          /\ req' = Request("POST", "/api/news", nextId, body, throws)
          /\ IF throws
             THEN /\ res' = Response(400, Message("Validation failed"))
                  /\ UNCHANGED <<store, nextId>>
             ELSE /\ store' = [i \in (DOMAIN store) \cup {nextId} |->
                                  IF i = nextId THEN NewDoc(nextId, body)
                                  ELSE store[i]]
                  /\ nextId' = nextId + 1
                  /\ res' = Response(201, Document(NewDoc(nextId, body)))
    /\ UNCHANGED notNewsVars

\* PUT /api/news/:id storing the cleaned fields of the body
PutNewsCleaned ==
    /\ \E id \in Ids, body \in RequestBodies, throws \in BOOLEAN :
          /\ req' = Request("PUT", "/api/news/:id", id, body, throws)
          /\ IF throws
             THEN /\ res' = Response(500, Message("Server error while updating"))
                  /\ UNCHANGED store
             ELSE IF id \notin DOMAIN store
             THEN /\ res' = Response(404, Message("Story not found"))
                  /\ UNCHANGED store
             ELSE /\ store' = [store EXCEPT ![id] =
                                  cleanFields(Update(@, body))]
                  /\ res' = Response(200, Literal(store'[id]))
    /\ UNCHANGED <<nextId, notNewsVars>>

\* PUT /api/news/:id
PutNews ==
    /\ \E id \in Ids, body \in RequestBodies, throws \in BOOLEAN :
          /\ req' = Request("PUT", "/api/news/:id", id, body, throws)
          /\ IF throws
             THEN /\ res' = Response(500, Message("Server error while updating"))
                  /\ UNCHANGED store
             ELSE IF id \notin DOMAIN store
             THEN /\ res' = Response(404, Message("Story not found"))
                  /\ UNCHANGED store
             ELSE /\ store' = [store EXCEPT ![id] = Update(@, body)]
                  /\ res' = Response(200, cleanNewsContent(Document(store'[id])))
    /\ UNCHANGED <<nextId, notNewsVars>>

\* DELETE /api/news/:id
DeleteNews ==
    /\ \E id \in Ids, throws \in BOOLEAN :
          /\ req' = Request("DELETE", "/api/news/:id", id, NoBody, throws)
          /\ IF throws
             THEN /\ res' = Response(500, Message("Server error while deleting"))
                  /\ UNCHANGED store
             ELSE IF id \notin DOMAIN store
             THEN /\ res' = Response(404, Message("Story not found"))
                  /\ UNCHANGED store
             ELSE /\ store' = [i \in (DOMAIN store) \ {id} |-> store[i]]
                  /\ res' = Response(200, Message("Story deleted successfully"))
    /\ UNCHANGED <<nextId, notNewsVars>>

NextNews == GetNews \/ GetNewsById \/ PostNews \/ PutNews \/ DeleteNews

SpecNews == InitNews /\ [][NextNews]_vars


-----------------------------------------------------------------------------
(* The claims about the news routes *)

\* the value of field f of the stored article id; undefined when there is
\* no such article or field
Stored(s, id, f) == IF id \in DOMAIN s THEN Get(s[id], f) ELSE Undefined

\* C14: the cleaned text is never stored: a GET request leaves the store as
\* it is, and a text field of a stored article changes only in a POST or a
\* PUT of that article, to the raw value the request body has for it.
C14_RawValuesStored ==
    [][/\ req'.method = "GET" => store' = store
       /\ \A id \in DOMAIN store' : \A f \in TextFields :
             \/ Stored(store', id, f) = Stored(store, id, f)
             \/ /\ req'.method \in {"POST", "PUT"}
                /\ req'.id = id
                /\ f \in DOMAIN req'.body
                /\ Stored(store', id, f) = req'.body[f]]_vars

\* a PUT with dirty text was answered with the cleaned article while the
\* store holds the dirty text of the body
C14_Witness ==
    /\ req.method = "PUT"
    /\ res.status = 200
    /\ req.body = [f \in TextFields |-> DirtyText[f]]
    /\ res.body.fields["title"] = Str(<<"X">>)
    /\ store[req.id]["title"] = DirtyText["title"]
    /\ store[req.id]["title"] # res.body.fields["title"]

\* the article the i-th record of the list is made from
ListedId(i) == SortedDesc(DOMAIN store)[i]

\* the answer to a GET that found its data is the cleaned query result
FetchedCleaned ==
    IF req.route = "/api/news"
    THEN /\ res.body.kind = "array"
         /\ Len(res.body.items) = Cardinality(DOMAIN store)
         /\ \A i \in 1..Len(res.body.items) :
               /\ res.body.items[i].fields["_id"] = ObjectId(ListedId(i))
               /\ \A f \in TextFields :
                     TextFieldCleaned(store[ListedId(i)],
                                      res.body.items[i].fields, f)
    ELSE /\ res.body.kind = "object"
         /\ res.body.fields["_id"] = ObjectId(req.id)
         /\ \A f \in TextFields :
               TextFieldCleaned(store[req.id], res.body.fields, f)

\* C15: a GET of the list or of one article that succeeds answers the query
\* result passed through cleanNewsContent; a GET whose fetch or cleaning
\* throws is answered 500 with a message, and no answer carries uncleaned
\* data.
C15_FetchCleanedOr500 ==
    req.method = "GET" =>
        /\ res.status \in {200, 404, 500}
        /\ req.throws => res.status = 500
        /\ res.status = 200 => FetchedCleaned
        /\ res.status # 200 => res.body.kind = "message"
        /\ (~req.throws /\ (req.route = "/api/news" \/ req.id \in DOMAIN store))
              => res.status = 200

\* the list of two stored articles, the newest with dirty text, was answered
\* cleaned
C15_Witness ==
    /\ req.method = "GET"
    /\ req.route = "/api/news"
    /\ res.status = 200
    /\ Len(res.body.items) = 2
    /\ store[2]["title"] = DirtyText["title"]
    /\ res.body.items[1].fields["title"] = Str(<<"X">>)


-----------------------------------------------------------------------------
(* The serverless handler of src/api/news.js.  Its invocations run          *)
(* concurrently in one process: an invocation runs up to its next await,    *)
(* and the awaited operation later resolves or rejects.                     *)

\* the number of invocations
MaxRequests == 2

Requests == 1..MaxRequests

Methods == {"GET", "POST", "PUT"}

\* an invocation: its method; whether the body of a POST has the required
\* fields; where it is; the status it answered (0: no response sent);
\* whether an operation it awaited threw
Invocation(method, complete, at, status, threw) ==
    [method |-> method, complete |-> complete, pc |-> at, status |-> status,
     threw |-> threw]

\* the handler after the connection is there, up to its next await or its
\* response
Dispatch(method, complete) ==
    IF method = "GET" THEN Invocation(method, complete, "finding", 0, FALSE)
    ELSE IF method = "POST"
    THEN IF ~complete THEN Invocation(method, complete, "done", 400, FALSE)
         ELSE Invocation(method, complete, "saving", 0, FALSE)
    ELSE Invocation(method, complete, "done", 405, FALSE)

InitHandler ==
    /\ CleanUnused
    /\ NewsUnused
    /\ RegisterUnused
    /\ ConcurrentUnused
    /\ AuthUnused
    /\ CorsUnused
    /\ CategoryUnused
    /\ PopulateUnused
    /\ conn = Null
    /\ connects = 0
    /\ inv = [r \in Requests |-> Invocation("none", FALSE, "idle", 0, FALSE)]

\* an invocation starts: if (!conn) it invokes mongoose.connect and awaits
\* it, otherwise it goes on with the cached connection
Start ==
    /\ \E r \in Requests, method \in Methods, complete \in BOOLEAN :
          /\ inv[r].pc = "idle"
          /\ IF conn = Null
             THEN /\ connects' = connects + 1
                  /\ inv' = [inv EXCEPT ![r] =
                               Invocation(method, complete, "connecting", 0, FALSE)]
             ELSE /\ connects' = connects
                  /\ inv' = [inv EXCEPT ![r] = Dispatch(method, complete)]
    /\ UNCHANGED <<conn, notHandlerVars>>

\* conn = await mongoose.connect(...): the connection is stored
ConnectResolves ==
    /\ \E r \in Requests :
          /\ inv[r].pc = "connecting"
          /\ conn' = [kind |-> "connection"]
          /\ inv' = [inv EXCEPT ![r] = Dispatch(@.method, @.complete)]
    /\ UNCHANGED <<connects, notHandlerVars>>

\* mongoose.connect rejects: the await is outside any try, the exception
\* leaves the handler
ConnectRejects ==
    /\ \E r \in Requests :
          /\ inv[r].pc = "connecting"
          /\ inv' = [inv EXCEPT ![r] =
                       Invocation(@.method, @.complete, "escaped", 0, TRUE)]
    /\ UNCHANGED <<conn, connects, notHandlerVars>>

\* await News.find().sort(...) resolves: 200 with the formatted list
FindResolves ==
    /\ \E r \in Requests :
          /\ inv[r].pc = "finding"
          /\ inv' = [inv EXCEPT ![r] =
                       Invocation(@.method, @.complete, "done", 200, FALSE)]
    /\ UNCHANGED <<conn, connects, notHandlerVars>>

\* await News.find().sort(...) rejects: the GET branch has no try, the
\* exception leaves the handler
FindRejects ==
    /\ \E r \in Requests :
          /\ inv[r].pc = "finding"
          /\ inv' = [inv EXCEPT ![r] =
                       Invocation(@.method, @.complete, "escaped", 0, TRUE)]
    /\ UNCHANGED <<conn, connects, notHandlerVars>>

\* await news.save() resolves: 201
SaveResolves ==
    /\ \E r \in Requests :
          /\ inv[r].pc = "saving"
          /\ inv' = [inv EXCEPT ![r] =
                       Invocation(@.method, @.complete, "done", 201, FALSE)]
    /\ UNCHANGED <<conn, connects, notHandlerVars>>

\* await news.save() rejects: the catch of the POST branch answers 500
SaveRejects ==
    /\ \E r \in Requests :
          /\ inv[r].pc = "saving"
          /\ inv' = [inv EXCEPT ![r] =
                       Invocation(@.method, @.complete, "done", 500, TRUE)]
    /\ UNCHANGED <<conn, connects, notHandlerVars>>

NextHandler ==
    \/ Start
    \/ ConnectResolves
    \/ ConnectRejects
    \/ FindResolves
    \/ FindRejects
    \/ SaveResolves
    \/ SaveRejects

SpecHandler == InitHandler /\ [][NextHandler]_vars

-----------------------------------------------------------------------------
(* The claims about the handlers and the connection cache *)

\* C16: when a store or connection operation of a handler throws, the
\* handler still sends one response and its status is a 4xx or 5xx: the
\* exception does not leave the handler and the failure is not answered
\* with a success status.
C16_FailureAnswered4xx5xx ==
    \A r \in Requests :
        inv[r].threw =>
            /\ inv[r].pc = "done"
            /\ inv[r].status >= 400
            /\ inv[r].status <= 599

\* C20: mongoose.connect is invoked at most once per process, however the
\* invocations of the handler interleave.
C20_ConnectAtMostOnce == connects <= 1


-----------------------------------------------------------------------------
(* POST /register of the auth router (part_000).  The requests run          *)
(* concurrently; a request runs up to its next await, and the operation it  *)
(* awaits takes effect on the users collection when it resolves.  The       *)
(* collection has a unique index on username and one on email.              *)

\* the number of registration requests
MaxRegistrations == 2

Registrations == 1..MaxRegistrations

\* the usernames of the bodies; the empty one is a missing field
Usernames == {"", "ann", "bob"}

Emails == {"a@x", "b@x"}

\* a request: the username and email of its body; where it is; the status
\* it answered (0: none yet); the place of the handler that answered; the
\* number of store operations it has performed
Registration(username, email, at, status, site, ops) ==
    [username |-> username, email |-> email, pc |-> at, status |-> status,
     site |-> site, ops |-> ops]

\* res.status(status).json(...) at the site: the request is done
Answered(r, status, site) ==
    [r EXCEPT !.pc = "done", !.status = status, !.site = site]

\* the duplicate-key error of a save that violates the unique index on key
DuplicateKey(key) == [code |-> 11000, keyPattern |-> key]

\* the unique indexes a save of the user would violate
Violated(username, email) ==
    {k \in {"username", "email"} :
        \E u \in users : IF k = "username" THEN u.username = username
                         ELSE u.email = email}

\* a catch answering every error of the save alike
CatchStatusGeneric(err) == 500

\* catch (err): the status for an error thrown inside the try
CatchStatus(err) ==
    IF err.code = 11000 /\ err.keyPattern \in {"email", "username"}
    THEN 400
    ELSE 500

InitRegister ==
    /\ CleanUnused
    /\ NewsUnused
    /\ HandlerUnused
    /\ ConcurrentUnused
    /\ AuthUnused
    /\ CorsUnused
    /\ CategoryUnused
    /\ PopulateUnused
    /\ users = {}
    /\ reg = [r \in Registrations |-> Registration("", "", "idle", 0, "none", 0)]

\* the request arrives: the body is destructured and checked for missing
\* fields, then User.findOne({ username }) is awaited
Arrive ==
    /\ \E r \in Registrations, username \in Usernames, email \in Emails :
          /\ reg[r].pc = "idle"
          /\ reg' = [reg EXCEPT ![r] =
                IF username = ""
                THEN Registration(username, email, "done", 400, "validation", 0)
                ELSE Registration(username, email, "findUsername", 0, "none", 0)]
    /\ UNCHANGED <<users, notRegisterVars>>

\* await User.findOne({ username }) resolves
FindUsername ==
    /\ \E r \in Registrations :
          /\ reg[r].pc = "findUsername"
          /\ reg' = [reg EXCEPT ![r] =
                IF \E u \in users : u.username = reg[r].username
                THEN Answered([@ EXCEPT !.ops = @ + 1], 400, "findUsername")
                ELSE [@ EXCEPT !.pc = "findEmail", !.ops = @ + 1]]
    /\ UNCHANGED <<users, notRegisterVars>>

\* await User.findOne({ email }) resolves
FindEmail ==
    /\ \E r \in Registrations :
          /\ reg[r].pc = "findEmail"
          /\ reg' = [reg EXCEPT ![r] =
                IF \E u \in users : u.email = reg[r].email
                THEN Answered([@ EXCEPT !.ops = @ + 1], 400, "findEmail")
                ELSE [@ EXCEPT !.pc = "hash", !.ops = @ + 1]]
    /\ UNCHANGED <<users, notRegisterVars>>

\* await bcrypt.hash(password, 10) resolves
Hash ==
    /\ \E r \in Registrations :
          /\ reg[r].pc = "hash"
          /\ reg' = [reg EXCEPT ![r].pc = "save"]
    /\ UNCHANGED <<users, notRegisterVars>>

\* await newUser.save() resolves, 201, or rejects with the duplicate-key
\* error of one of the unique indexes it violates, which the catch answers
SaveUser ==
    /\ \E r \in Registrations :
          /\ reg[r].pc = "save"
          /\ IF Violated(reg[r].username, reg[r].email) = {}
             THEN /\ users' = users \cup
                        {[username |-> reg[r].username, email |-> reg[r].email]}
                  /\ reg' = [reg EXCEPT ![r] =
                        Answered([@ EXCEPT !.ops = @ + 1], 201, "created")]
             ELSE /\ \E key \in Violated(reg[r].username, reg[r].email) :
                        reg' = [reg EXCEPT ![r] =
                           Answered([@ EXCEPT !.ops = @ + 1],
                                    CatchStatus(DuplicateKey(key)), "catch")]
                  /\ UNCHANGED users
    /\ UNCHANGED notRegisterVars

NextRegister == Arrive \/ FindUsername \/ FindEmail \/ Hash \/ SaveUser

SpecRegister == InitRegister /\ [][NextRegister]_vars

-----------------------------------------------------------------------------
(* The claims about registration *)

\* C17: every request performs at most one store operation, so no request
\* is about to write on the strength of a read of its own that the write of
\* another request has made untrue in between.
C17_SingleStoreOperation ==
    \A r \in Registrations :
        /\ reg[r].ops <= 1
        /\ reg[r].pc \in {"hash", "save"}
              => Violated(reg[r].username, reg[r].email) = {}

\* the requests that were answered with the status
AnsweredWith(status) ==
    {r \in Registrations : reg[r].pc = "done" /\ reg[r].status = status}

-----------------------------------------------------------------------------
(* Concurrent invocations of cleanText.  Every invocation runs the          *)
(* statements of the function one after the other; the statements of        *)
(* different invocations interleave in every order.                         *)

\* the number of concurrent invocations
MaxCalls == 2

Calls == 1..MaxCalls

\* the arguments of the concurrent invocations
ConcurrentTexts ==
    { Null,
      Str(<<"<", "n", ">", "X">>),
      Str(<<"&", "a", "m", "p", ";", " ", " ", "X">>),
      Str(<<"X", BS, ",">>) }

\* the activation holding the variable cleaned of an invocation, were
\* cleaned one variable of the module
SharedFrame(c) == 1

\* the activation holding the variable cleaned of an invocation: let
\* cleaned is declared in the function, every invocation has its own
Frame(c) == c

InitConcurrent ==
    /\ CleanUnused
    /\ NewsUnused
    /\ HandlerUnused
    /\ RegisterUnused
    /\ AuthUnused
    /\ CorsUnused
    /\ CategoryUnused
    /\ PopulateUnused
    /\ calls = [c \in Calls |-> [arg |-> NoValue, pc |-> "idle", result |-> NoValue]]
    /\ frames = [c \in Calls |-> <<>>]

\* cleanText(text) is called: if (!text) return text
Call ==
    /\ \E c \in Calls, t \in ConcurrentTexts :
          /\ calls[c].pc = "idle"
          /\ calls' = [calls EXCEPT ![c] =
                IF Falsy(t) THEN [arg |-> t, pc |-> "returned", result |-> t]
                ELSE [arg |-> t, pc |-> "decode", result |-> NoValue]]
    /\ UNCHANGED <<frames, notConcurrentVars>>

\* let cleaned = he.decode(text)
Decode ==
    /\ \E c \in Calls :
          /\ calls[c].pc = "decode"
          /\ frames' = [frames EXCEPT ![Frame(c)] = heDecode(calls[c].arg.chars)]
          /\ calls' = [calls EXCEPT ![c].pc = "strip"]
    /\ UNCHANGED notConcurrentVars

\* cleaned = striptags(cleaned)
Strip ==
    /\ \E c \in Calls :
          /\ calls[c].pc = "strip"
          /\ frames' = [frames EXCEPT ![Frame(c)] = striptags(@)]
          /\ calls' = [calls EXCEPT ![c].pc = "repair"]
    /\ UNCHANGED notConcurrentVars

\* cleaned = cleaned.replace(...) ... .trim()
Repair ==
    /\ \E c \in Calls :
          /\ calls[c].pc = "repair"
          /\ frames' = [frames EXCEPT ![Frame(c)] =
                           trim(replaceWhitespace(escapeRepair(@)))]
          /\ calls' = [calls EXCEPT ![c].pc = "return"]
    /\ UNCHANGED notConcurrentVars

\* return cleaned
Return ==
    /\ \E c \in Calls :
          /\ calls[c].pc = "return"
          /\ calls' = [calls EXCEPT ![c].pc = "returned",
                                    ![c].result = Str(frames[Frame(c)])]
    /\ UNCHANGED <<frames, notConcurrentVars>>

NextConcurrent == Call \/ Decode \/ Strip \/ Repair \/ Return

SpecConcurrent == InitConcurrent /\ [][NextConcurrent]_vars

\* C18: the normalizer shares no state between its invocations: in every
\* interleaving of concurrent invocations the result of each is the one its
\* own argument gives.
C18_ResultOfOwnArgument ==
    \A c \in Calls :
        calls[c].pc = "returned" => calls[c].result = cleanText(calls[c].arg)

\* two invocations with different arguments ran together and each returned
\* the cleaned text of its own argument
C18_Witness ==
    /\ calls[1].pc = "returned"
    /\ calls[2].pc = "returned"
    /\ calls[1].arg = Str(<<"<", "n", ">", "X">>)
    /\ calls[2].arg = Str(<<"X", BS, ",">>)
    /\ calls[1].result = Str(<<"X">>)
    /\ calls[2].result = Str(<<"X", ",">>)


-----------------------------------------------------------------------------
(* authMiddleware and getBearer.  A header is a sequence of chunks: a       *)
(* chunk is one space or a word without spaces.  A token is the sequence    *)
(* of chunks of the second part of the header.                              *)

\* the longest header, in chunks
MaxChunks == 3

SPACE == " "

\* the words of the headers: spellings of the scheme, another scheme, and
\* tokens: one signed over a payload with an id, one over a payload without
\* id, one over a payload whose id is the empty string, one that does not
\* verify
HeaderChunks ==
    {SPACE, "Bearer", "bEaReR", "Basic",
     "tokId", "tokNoId", "tokEmptyId", "tokBad"}

\* the headers: none at all, or up to MaxChunks chunks
Headers ==
    {Undefined} \cup
    {Str(h) : h \in UNION {[1..n -> HeaderChunks] : n \in 0..MaxChunks}}

\* the word in lower case
ToLower(w) == IF w = "Bearer" \/ w = "bEaReR" THEN "bearer"
              ELSE IF w = "Basic" THEN "basic" ELSE w

\* header.split(" "): the parts between the spaces, empty ones included
RECURSIVE split(_)
split(s) ==
    IF \A i \in 1..Len(s) : s[i] # SPACE THEN <<s>>
    ELSE LET i == CHOOSE k \in 1..Len(s) :
                     s[k] = SPACE /\ \A j \in 1..(k - 1) : s[j] # SPACE
         IN  <<SubSeq(s, 1, i - 1)>> \o split(SubSeq(s, i + 1, Len(s)))

\* /^Bearer$/i.test(part)
TestBearer(part) == Len(part) = 1 /\ ToLower(part[1]) = "bearer"

\* getBearer comparing the scheme with "Bearer" as it is written
getBearerCaseSensitive(h) ==
    LET hdr == IF Falsy(h) THEN <<>> ELSE h.chars
        parts == split(hdr)
    IN  IF Len(parts) = 2 /\ parts[1] = <<"Bearer">> THEN Str(parts[2]) ELSE Null

\* getBearer(req): the second part of the header, or null
getBearer(h) ==
    LET hdr == IF Falsy(h) THEN <<>> ELSE h.chars
        parts == split(hdr)
    IN  IF Len(parts) = 2 /\ TestBearer(parts[1]) THEN Str(parts[2]) ELSE Null

\* jwt.verify(token, secret, callback): the arguments the callback gets
verify(token) ==
    IF token = Str(<<"tokId">>)
    THEN [err |-> FALSE,
          decoded |-> [f \in {"id", "iat"} |->
                          IF f = "id" THEN Str(<<"u", "1">>) ELSE Str(<<"t">>)]]
    ELSE IF token = Str(<<"tokNoId">>)
    THEN [err |-> FALSE, decoded |-> [f \in {"iat"} |-> Str(<<"t">>)]]
    ELSE IF token = Str(<<"tokEmptyId">>)
    THEN [err |-> FALSE,
          decoded |-> [f \in {"id", "iat"} |->
                          IF f = "id" THEN Str(<<>>) ELSE Str(<<"t">>)]]
    ELSE [err |-> TRUE, decoded |-> EmptyRecord]

\* decoded?.id
DecodedId(decoded) == Get(decoded, "id")

InitAuth ==
    /\ CleanUnused
    /\ NewsUnused
    /\ HandlerUnused
    /\ RegisterUnused
    /\ ConcurrentUnused
    /\ CorsUnused
    /\ CategoryUnused
    /\ PopulateUnused
    /\ header \in Headers
    /\ authPc = "call"
    /\ userId = Undefined
    /\ sent = <<>>
    /\ nexts = 0

\* authMiddleware(req, res, next) up to the call of jwt.verify
AuthMiddleware ==
    /\ authPc = "call"
    /\ IF Falsy(getBearer(header))
       THEN /\ sent' = Append(sent, 401)
            /\ authPc' = "done"
       ELSE /\ sent' = sent
            /\ authPc' = "verify"
    /\ UNCHANGED <<header, userId, nexts, notAuthVars>>

\* the callback of jwt.verify
VerifyCallback ==
    /\ authPc = "verify"
    /\ LET r == verify(getBearer(header))
           id == DecodedId(r.decoded)
       IN  IF r.err \/ Falsy(id)
           THEN /\ sent' = Append(sent, 403)
                /\ UNCHANGED <<userId, nexts>>
           ELSE /\ userId' = id
                /\ nexts' = nexts + 1
                /\ sent' = sent
    /\ authPc' = "done"
    /\ UNCHANGED <<header, notAuthVars>>

NextAuth == AuthMiddleware \/ VerifyCallback

SpecAuth == InitAuth /\ [][NextAuth]_vars

-----------------------------------------------------------------------------
(* The claims about authMiddleware *)

\* the header is a spelling of Bearer, one space, and a token without space
BearerShape ==
    /\ header # Undefined
    /\ Len(header.chars) >= 2
    /\ header.chars[1] \in {"Bearer", "bEaReR"}
    /\ header.chars[2] = SPACE
    /\ \A i \in 3..Len(header.chars) : header.chars[i] # SPACE

\* the token of a header of that shape
BearerToken == SubSeq(header.chars, 3, Len(header.chars))

\* C21: authMiddleware calls next() exactly when the header is two parts
\* separated by one space, the first part Bearer in any case and the second
\* a token that verifies to a payload with an id, and then req.userId is
\* that id; otherwise next() is not called and one response is sent: 401
\* when no token is extracted, 403 when the token does not verify or its
\* payload has no id.
C21_NextOnlyForVerifiedBearer ==
    /\ nexts <= 1
    /\ Len(sent) <= 1
    /\ authPc # "done" => nexts = 0 /\ sent = <<>>
    /\ authPc = "done" =>
          IF BearerShape /\ BearerToken = <<"tokId">>
          THEN nexts = 1 /\ userId = Str(<<"u", "1">>) /\ sent = <<>>
          ELSE /\ nexts = 0
               /\ userId = Undefined
               /\ sent = IF BearerShape /\ BearerToken # <<>>
                         THEN <<403>> ELSE <<401>>

\* a header spelled bEaReR with a good token passed: next() was called and
\* req.userId is the id of the payload
C21_Witness ==
    /\ authPc = "done"
    /\ header = Str(<<"bEaReR", SPACE, "tokId">>)
    /\ nexts = 1
    /\ userId = Str(<<"u", "1">>)
    /\ sent = <<>>


-----------------------------------------------------------------------------
(* The middleware chain of server.js: the CORS middleware, then the routes  *)
(* with the 404 handler behind them, and the global error handler.          *)

allowedOrigins ==
    { Str(<<"https://climate-africa.com">>),
      Str(<<"http://localhost:3000">>),
      Str(<<"http://localhost:5173">>) }

\* the Origin headers of the requests: none, empty, the allowed ones, one
\* of them in capitals, a foreign one
Origins ==
    {Undefined, Str(<<>>)} \cup allowedOrigins \cup
    { Str(<<"HTTPS://CLIMATE-AFRICA.COM">>), Str(<<"https://evil.example">>) }

RequestMethods == {"GET", "POST", "PUT", "DELETE", "PATCH", "OPTIONS"}

\* the root route and a path no route has
Paths == {"/", "/nowhere"}

\* the outcome of an origin callback: the error and the flag it passes on
Callback(err, allow) == [err |-> err, allow |-> allow]

NoError == [message |-> <<>>]

\* new Error(`Origin ${origin} not allowed by CORS`)
CorsError(o) == [message |-> <<"Origin ", o.chars, " not allowed by ", "CORS">>]

\* an origin callback allowing every origin
originCallbackAllowAll(o) == Callback(NoError, TRUE)

\* origin: (origin, callback) => ... of the cors options
originCallback(o) ==
    IF Falsy(o) THEN Callback(NoError, TRUE)
    ELSE IF o \in allowedOrigins THEN Callback(NoError, TRUE)
    ELSE Callback(CorsError(o), FALSE)

\* err.message && err.message.includes("CORS")
IsCorsError(err) ==
    /\ err.message # <<>>
    /\ \E i \in 1..Len(err.message) : err.message[i] = "CORS"

\* a route is registered for the method and the path: app.get("/")
HasRoute(m, p) == m = "GET" /\ p = "/"

InitCors ==
    /\ CleanUnused
    /\ NewsUnused
    /\ HandlerUnused
    /\ RegisterUnused
    /\ ConcurrentUnused
    /\ AuthUnused
    /\ CategoryUnused
    /\ PopulateUnused
    /\ origin \in Origins
    /\ reqMethod \in RequestMethods
    /\ reqPath \in Paths
    /\ stage = "cors"
    /\ resStatus = 0
    /\ visited = {}

\* app.use(cors({ origin: ... })): the origin callback fails and the error
\* is passed on; or the preflight is answered 204; or the headers are set
\* and the request goes on
CorsMiddleware ==
    /\ stage = "cors"
    /\ visited' = visited \cup {"cors"}
    /\ LET r == originCallback(origin)
       IN  IF r.err # NoError \/ ~r.allow
           THEN stage' = "errorHandler" /\ resStatus' = resStatus
           ELSE IF reqMethod = "OPTIONS"
           THEN stage' = "done" /\ resStatus' = 204
           ELSE stage' = "routing" /\ resStatus' = resStatus
    /\ UNCHANGED <<origin, reqMethod, reqPath, notCorsVars>>

\* express.json, the logging middleware and the router: the request reaches
\* the handler of its route or falls through to the 404 handler
Routing ==
    /\ stage = "routing"
    /\ visited' = visited \cup {"routing"}
    /\ stage' = IF HasRoute(reqMethod, reqPath) THEN "route" ELSE "notFound"
    /\ UNCHANGED <<origin, reqMethod, reqPath, resStatus, notCorsVars>>

\* app.get("/"): res.json(...)
RootRoute ==
    /\ stage = "route"
    /\ visited' = visited \cup {"route"}
    /\ resStatus' = 200
    /\ stage' = "done"
    /\ UNCHANGED <<origin, reqMethod, reqPath, notCorsVars>>

\* the 404 handler
NotFound ==
    /\ stage = "notFound"
    /\ visited' = visited \cup {"notFound"}
    /\ resStatus' = 404
    /\ stage' = "done"
    /\ UNCHANGED <<origin, reqMethod, reqPath, notCorsVars>>

\* the global error handler, reached with the error of the origin callback
ErrorHandler ==
    /\ stage = "errorHandler"
    /\ visited' = visited \cup {"errorHandler"}
    /\ resStatus' = IF IsCorsError(originCallback(origin).err) THEN 403 ELSE 500
    /\ stage' = "done"
    /\ UNCHANGED <<origin, reqMethod, reqPath, notCorsVars>>

NextCors == CorsMiddleware \/ Routing \/ RootRoute \/ NotFound \/ ErrorHandler

SpecCors == InitCors /\ [][NextCors]_vars


-----------------------------------------------------------------------------
(* The claims about the CORS middleware *)

RoutingStages == {"routing", "route", "notFound"}

\* C22 as stated: a request whose Origin header is present and not in
\* allowedOrigins reaches no route handler and no 404 handler and is
\* answered 403 by the global error handler; a request without Origin
\* header or with an allowed one proceeds to routing.
C22_ForeignOriginBlocked ==
    IF origin # Undefined /\ origin \notin allowedOrigins
    THEN /\ stage \notin RoutingStages
         /\ visited \cap RoutingStages = {}
         /\ stage = "done" => resStatus = 403 /\ "errorHandler" \in visited
    ELSE stage = "done" => "routing" \in visited

\* the origin callback fails for the Origin header: it is not empty and not
\* in allowedOrigins
Blocked == ~Falsy(origin) /\ origin \notin allowedOrigins

\* C22, amended: a request whose Origin header is present, not empty and
\* not in allowedOrigins reaches no route handler and no 404 handler and is
\* answered 403 by the global error handler; any other request proceeds to
\* routing unless its method is OPTIONS, which the CORS middleware answers
\* 204 itself.
C22_ForeignOriginBlockedPreflightAnswered ==
    IF Blocked
    THEN /\ stage \notin RoutingStages
         /\ visited \cap RoutingStages = {}
         /\ stage = "done" => resStatus = 403 /\ visited = {"cors", "errorHandler"}
    ELSE stage = "done" =>
            IF reqMethod = "OPTIONS"
            THEN resStatus = 204 /\ visited = {"cors"}
            ELSE /\ "routing" \in visited
                 /\ "errorHandler" \notin visited
                 /\ resStatus = IF HasRoute(reqMethod, reqPath) THEN 200 ELSE 404

\* a GET of the root route from a foreign origin was answered 403 by the
\* error handler
C22_Witness ==
    /\ stage = "done"
    /\ origin = Str(<<"https://evil.example">>)
    /\ reqMethod = "GET"
    /\ reqPath = "/"
    /\ resStatus = 403
    /\ visited = {"cors", "errorHandler"}


-----------------------------------------------------------------------------
(* GET /api/news/category/:slug of server.js.  A slug or a category is a    *)
(* sequence of chunks: words, hyphens and spaces.  The handler awaits its   *)
(* queries one after the other; other requests may change the collection    *)
(* between them.                                                            *)

\* how many times the collection changes while the route runs
MaxWrites == 1

HYPHEN == "-"

ANY == ".*"

\* the word in lower case: what the i flag compares
Lower(w) ==
    CASE w = "Climate" -> "climate"
      [] w = "Change"  -> "change"
      [] w = "Policy"  -> "policy"
      [] w = "News"    -> "news"
      [] OTHER         -> w

\* replace(/\b\w/g, l => l.toUpperCase()) on one word
Capitalize(w) ==
    CASE w = "climate" -> "Climate"
      [] w = "change"  -> "Change"
      [] w = "policy"  -> "Policy"
      [] w = "news"    -> "News"
      [] OTHER         -> w

\* the documents the collection may hold; id orders them by publishedAt
CategoryDoc(id, categorySlug, category) ==
    [id |-> id, categorySlug |-> categorySlug, category |-> category]

CategoryDocs ==
    { CategoryDoc(1, <<"climate", HYPHEN, "change">>, <<"Climate", " ", "Change">>),
      CategoryDoc(2, <<"Climate", HYPHEN, "Change">>, <<"Climate">>),
      CategoryDoc(3, <<"climate", HYPHEN, "policy", HYPHEN, "change">>, <<"Policy">>),
      CategoryDoc(4, <<"weather">>, <<"Climate", " ", "Change", " ", "News">>) }

\* the slugs of the requests
RequestSlugs ==
    { <<"climate", HYPHEN, "change">>, <<"climate">>, <<"weather">>,
      <<"energy">>, <<"Policy">> }

\* the regular expression matches at the start of s, ignoring case
RECURSIVE MatchPrefix(_, _)
MatchPrefix(p, s) ==
    IF p = <<>> THEN TRUE
    ELSE IF Head(p) = ANY
    THEN \E k \in 0..Len(s) : MatchPrefix(Tail(p), SubSeq(s, k + 1, Len(s)))
    ELSE /\ s # <<>>
         /\ Lower(Head(s)) = Lower(Head(p))
         /\ MatchPrefix(Tail(p), Tail(s))

\* the regular expression ^p$ matches s, ignoring case
RECURSIVE MatchWhole(_, _)
MatchWhole(p, s) ==
    IF p = <<>> THEN s = <<>>
    ELSE IF Head(p) = ANY
    THEN \E k \in 0..Len(s) : MatchWhole(Tail(p), SubSeq(s, k + 1, Len(s)))
    ELSE /\ s # <<>>
         /\ Lower(Head(s)) = Lower(Head(p))
         /\ MatchWhole(Tail(p), Tail(s))

\* the regular expression p matches somewhere in s, ignoring case
Search(p, s) == \E k \in 0..Len(s) : MatchPrefix(p, SubSeq(s, k + 1, Len(s)))

\* slug.replace(/-/g, '.*')
PartialPattern(sl) == [i \in 1..Len(sl) |-> IF sl[i] = HYPHEN THEN ANY ELSE sl[i]]

\* slug.replace(/-/g, ' ').replace(/\b\w/g, l => l.toUpperCase())
normalizedCategory(sl) ==
    [i \in 1..Len(sl) |-> IF sl[i] = HYPHEN THEN " " ELSE Capitalize(sl[i])]

\* the filter of each of the four find queries
Matches(kind, sl, d) ==
    CASE kind = "exact"       -> d.categorySlug = sl
      [] kind = "insensitive" -> MatchWhole(sl, d.categorySlug)
      [] kind = "partial"     -> Search(PartialPattern(sl), d.categorySlug)
      [] kind = "name"        -> Search(normalizedCategory(sl), d.category)

\* News.find(filter).sort({ publishedAt: -1 }).lean()
FindNews(kind, sl) ==
    LET hit == {d \in docs : Matches(kind, sl, d)}
        ids == SortedDesc({d.id : d \in hit})
    IN  [i \in 1..Len(ids) |-> CHOOSE d \in hit : d.id = ids[i]]

mockNews == <<[id |-> 0, categorySlug |-> <<"mock">>, category |-> <<"Mock">>]>>

CategoryResponse(success, data, count) ==
    [success |-> success, data |-> data, count |-> count]

\* a route going on to the next query whatever the last one found
AfterAlways(kind, result) ==
    CASE kind = "exact"       -> "insensitive"
      [] kind = "insensitive" -> "partial"
      [] kind = "partial"     -> "name"
      [] kind = "name"        -> IF result = <<>> THEN "distinctSlug" ELSE "respond"

\* where the route goes after a find query: to the response when the result
\* is not empty, else to the next query
After(kind, result) ==
    IF result # <<>> THEN "respond"
    ELSE CASE kind = "exact"       -> "insensitive"
           [] kind = "insensitive" -> "partial"
           [] kind = "partial"     -> "name"
           [] kind = "name"        -> "distinctSlug"

\* a store operation of the route and what it returned
Issued(kind, result, threw) == [kind |-> kind, result |-> result, threw |-> threw]

InitCategory ==
    /\ CleanUnused
    /\ NewsUnused
    /\ HandlerUnused
    /\ RegisterUnused
    /\ ConcurrentUnused
    /\ AuthUnused
    /\ CorsUnused
    /\ PopulateUnused
    /\ docs \in SUBSET CategoryDocs
    /\ slug \in RequestSlugs
    /\ readyState \in {0, 1}
    /\ catPc = "start"
    /\ issued = <<>>
    /\ catRes = CategoryResponse(FALSE, <<>>, Undefined)
    /\ writes = 0

\* the find query of the kind has resolved: the route answers or awaits its
\* next query
FindResolved(kind) ==
    /\ LET result == FindNews(kind, slug)
       IN  /\ issued' = Append(issued, Issued(kind, result, FALSE))
           /\ IF After(kind, result) = "respond"
              THEN /\ catRes' = CategoryResponse(TRUE, result, Len(result))
                   /\ catPc' = "done"
              ELSE /\ catRes' = catRes
                   /\ catPc' = After(kind, result)
    /\ UNCHANGED <<docs, slug, readyState, writes, notCategoryVars>>

\* the handler is called: with the database connected it awaits the exact
\* match, else it answers the mock data
StartCategory ==
    /\ catPc = "start"
    /\ IF readyState = 1
       THEN catPc' = "exact" /\ catRes' = catRes
       ELSE catPc' = "done" /\ catRes' = CategoryResponse(FALSE, mockNews, Undefined)
    /\ UNCHANGED <<docs, slug, readyState, issued, writes, notCategoryVars>>

\* News.find({ categorySlug: slug })
FindExact ==
    /\ catPc = "exact"
    /\ FindResolved("exact")

\* News.find({ categorySlug: { $regex: new RegExp(`^${slug}$`, 'i') } })
FindInsensitive ==
    /\ catPc = "insensitive"
    /\ FindResolved("insensitive")

\* News.find({ categorySlug: { $regex: new RegExp(slug.replace(/-/g, '.*'), 'i') } })
FindPartial ==
    /\ catPc = "partial"
    /\ FindResolved("partial")

\* News.find({ category: { $regex: new RegExp(normalizedCategory, 'i') } })
FindByName ==
    /\ catPc = "name"
    /\ FindResolved("name")

\* News.distinct("categorySlug")
DistinctSlugs ==
    /\ catPc = "distinctSlug"
    /\ issued' = Append(issued, Issued("distinctSlug", <<>>, FALSE))
    /\ catPc' = "distinctCategory"
    /\ UNCHANGED <<docs, slug, readyState, catRes, writes, notCategoryVars>>

\* News.distinct("category"), then the answer that nothing was found
DistinctCategories ==
    /\ catPc = "distinctCategory"
    /\ issued' = Append(issued, Issued("distinctCategory", <<>>, FALSE))
    /\ catRes' = CategoryResponse(FALSE, <<>>, Undefined)
    /\ catPc' = "done"
    /\ UNCHANGED <<docs, slug, readyState, writes, notCategoryVars>>

\* the awaited store operation rejects: the catch answers the mock data
QueryThrows ==
    /\ catPc \in {"exact", "insensitive", "partial", "name",
                  "distinctSlug", "distinctCategory"}
    /\ issued' = Append(issued, Issued(catPc, <<>>, TRUE))
    /\ catRes' = CategoryResponse(FALSE, mockNews, Undefined)
    /\ catPc' = "done"
    /\ UNCHANGED <<docs, slug, readyState, writes, notCategoryVars>>

\* another request stores or deletes a document while the route runs
StoreChanges ==
    /\ catPc \notin {"start", "done"}
    /\ writes < MaxWrites
    /\ \E d \in CategoryDocs :
          docs' = IF d \in docs THEN docs \ {d} ELSE docs \cup {d}
    /\ writes' = writes + 1
    /\ UNCHANGED <<slug, readyState, catPc, issued, catRes, notCategoryVars>>

NextCategory ==
    \/ StartCategory
    \/ FindExact
    \/ FindInsensitive
    \/ FindPartial
    \/ FindByName
    \/ DistinctSlugs
    \/ DistinctCategories
    \/ QueryThrows
    \/ StoreChanges

SpecCategory == InitCategory /\ [][NextCategory]_vars


-----------------------------------------------------------------------------
(* The claims about the category route *)

\* the order of the four find queries
QueryOrder == <<"exact", "insensitive", "partial", "name">>

\* the store operations are issued in the order exact, case-insensitive,
\* partial, category name, then the two distinct lookups
IssuedInOrder ==
    /\ Len(issued) <= 6
    /\ \A i \in 1..Len(issued) :
          issued[i].kind = IF i <= 4 THEN QueryOrder[i]
                           ELSE IF i = 5 THEN "distinctSlug"
                           ELSE "distinctCategory"

\* no store operation is issued after a find query that returned documents
StopsAtFirstHit ==
    \A i \in 1..(Len(issued) - 1) : issued[i].result = <<>> /\ ~issued[i].threw

\* the last store operation is a find query that returned documents
LastIsHit ==
    /\ Len(issued) \in 1..4
    /\ ~issued[Len(issued)].threw
    /\ issued[Len(issued)].result # <<>>

\* the four find queries all returned and all were empty
AllFourEmpty ==
    /\ Len(issued) >= 4
    /\ \A i \in 1..4 : issued[i].result = <<>> /\ ~issued[i].threw

\* a store operation of the route threw
SomeThrew == \E i \in 1..Len(issued) : issued[i].threw

\* success:true exactly when data is the non-empty result of the last query
\* and count its length
SuccessIsTheHit ==
    /\ catRes.success <=> LastIsHit
    /\ catRes.success =>
          /\ catRes.data = issued[Len(issued)].result
          /\ catRes.data # <<>>
          /\ catRes.count = Len(catRes.data)

-----------------------------------------------------------------------------
(* POST /api/admin/populate-categories of server.js.  An invocation goes    *)
(* through the categories of the frontend in their order; for each it       *)
(* awaits countDocuments and, when the count is 0, News.create.             *)
(* Invocations may overlap: each runs up to its next await.  No document    *)
(* is deleted.                                                              *)

\* the number of invocations
MaxInvocations == 2

Invocations == 1..MaxInvocations

frontendCategories ==
    << "regional-climate-news", "policy-governance",
       "environment-biodiversity", "agriculture-food-security",
       "energy-sustainability", "human-stories-community-impact",
       "science-research", "solutions-innovation" >>

Slugs == {frontendCategories[k] : k \in 1..Len(frontendCategories)}

\* an invocation: where it is; the index of the category at hand; its
\* results; the status it answered (0: none yet); whether an earlier
\* invocation had completed when it started
Population(at, cat, results, answered, startedAfter) ==
    [pc |-> at, cat |-> cat, results |-> results, status |-> answered,
     startedAfter |-> startedAfter]

\* results.push({ slug, status })
Result(s, outcome) == [slug |-> s, status |-> outcome]

\* the invocation after the category at hand: the next category, or the
\* lookups behind the loop
Advance(p, outcome) ==
    [p EXCEPT !.results = Append(@, Result(frontendCategories[p.cat], outcome)),
              !.cat = IF p.cat < Len(frontendCategories) THEN p.cat + 1 ELSE p.cat,
              !.pc = IF p.cat < Len(frontendCategories) THEN "count"
                     ELSE "distinctSlug"]

Completed(p) == p.pc = "done" /\ p.status = 200

InitPopulate ==
    /\ CleanUnused
    /\ NewsUnused
    /\ HandlerUnused
    /\ RegisterUnused
    /\ ConcurrentUnused
    /\ AuthUnused
    /\ CorsUnused
    /\ CategoryUnused
    /\ \E given \in {{}, {"policy-governance"}} :
          sampleCount = [s \in Slugs |-> IF s \in given THEN 1 ELSE 0]
    /\ pop = [i \in Invocations |-> Population("idle", 1, <<>>, 0, FALSE)]

\* the handler is called and awaits countDocuments for the first category
PopulateStart ==
    /\ \E i \in Invocations :
          /\ pop[i].pc = "idle"
          /\ pop' = [pop EXCEPT ![i] =
                Population("count", 1, <<>>, 0,
                           \E j \in Invocations : Completed(pop[j]))]
    /\ UNCHANGED <<sampleCount, notPopulateVars>>

\* await News.countDocuments({ categorySlug }) resolves
CountDocuments ==
    /\ \E i \in Invocations :
          /\ pop[i].pc = "count"
          /\ pop' = [pop EXCEPT ![i] =
                IF sampleCount[frontendCategories[pop[i].cat]] = 0
                THEN [@ EXCEPT !.pc = "create"]
                ELSE Advance(@, "EXISTS")]
    /\ UNCHANGED <<sampleCount, notPopulateVars>>

\* await News.create(sampleDoc) resolves
CreateSample ==
    /\ \E i \in Invocations :
          /\ pop[i].pc = "create"
          /\ sampleCount' = [sampleCount EXCEPT ![frontendCategories[pop[i].cat]] = @ + 1]
          /\ pop' = [pop EXCEPT ![i] = Advance(@, "ADDED")]
    /\ UNCHANGED notPopulateVars

\* await News.distinct("categorySlug") resolves
PopulateDistinctSlugs ==
    /\ \E i \in Invocations :
          /\ pop[i].pc = "distinctSlug"
          /\ pop' = [pop EXCEPT ![i].pc = "distinctCategory"]
    /\ UNCHANGED <<sampleCount, notPopulateVars>>

\* await News.distinct("category") resolves; res.json({ success: true, ... })
PopulateRespond ==
    /\ \E i \in Invocations :
          /\ pop[i].pc = "distinctCategory"
          /\ pop' = [pop EXCEPT ![i].pc = "done", ![i].status = 200]
    /\ UNCHANGED <<sampleCount, notPopulateVars>>

\* an awaited store operation rejects: the catch answers 500
PopulateThrows ==
    /\ \E i \in Invocations :
          /\ pop[i].pc \in {"count", "create", "distinctSlug", "distinctCategory"}
          /\ pop' = [pop EXCEPT ![i].pc = "done", ![i].status = 500]
    /\ UNCHANGED <<sampleCount, notPopulateVars>>

NextPopulate ==
    \/ PopulateStart
    \/ CountDocuments
    \/ CreateSample
    \/ PopulateDistinctSlugs
    \/ PopulateRespond
    \/ PopulateThrows

SpecPopulate == InitPopulate /\ [][NextPopulate]_vars

-----------------------------------------------------------------------------
(* The claims about the populate route *)

\* the invocations that report the slug as ADDED
Adders(s) ==
    {i \in Invocations :
        \E k \in 1..Len(pop[i].results) :
            pop[i].results[k] = Result(s, "ADDED")}

\* C24: over any invocations of the populate route, overlapping ones
\* included, at most one sample document is created for each of the 8
\* slugs, a slug that has a document gets none, and an invocation that
\* starts after another has completed reports all 8 slugs as EXISTS and
\* adds nothing.
C24_PopulateIdempotent ==
    /\ \A s \in Slugs : Cardinality(Adders(s)) <= 1 /\ sampleCount[s] <= 1
    /\ \A i \in Invocations :
          (Completed(pop[i]) /\ pop[i].startedAfter) =>
              /\ Len(pop[i].results) = Len(frontendCategories)
              /\ \A k \in 1..Len(pop[i].results) :
                    pop[i].results[k].status = "EXISTS"


=============================================================================
